---------------------------- MODULE Spec2Model ----------------------------
(***************************************************************************)
(* SHA-256 and HMAC-SHA256 of bernie_hmac (src/src/lib.rs, src/src/utils.rs) *)
(*                                                                         *)
(* A u8 is an integer 0..255.  A u32 is a pair <<hi, lo>> of its two 16-bit  *)
(* halves (value hi * 65536 + lo), because TLC's integers are signed      *)
(* 32-bit.          A usize / u64 bit count is a pair <<high, low>> with    *)
(* value high * 2^31 + low, 0 <= low < 2^31.                               *)
(***************************************************************************)
EXTENDS Integers, Naturals, Sequences, FiniteSets, TLC

(***************************************************************************)
(* Primitive integer operations of the language on the representations.    *)
(***************************************************************************)
Pow2(n) == <<1, 2, 4, 8, 16, 32, 64, 128, 256, 512, 1024, 2048, 4096, 8192,
             16384, 32768, 65536>>[n + 1]

\* x ^ y on 4-bit values, row x + 1, column y + 1
XorNibble ==
  << <<0,1,2,3,4,5,6,7,8,9,10,11,12,13,14,15>>,
     <<1,0,3,2,5,4,7,6,9,8,11,10,13,12,15,14>>,
     <<2,3,0,1,6,7,4,5,10,11,8,9,14,15,12,13>>,
     <<3,2,1,0,7,6,5,4,11,10,9,8,15,14,13,12>>,
     <<4,5,6,7,0,1,2,3,12,13,14,15,8,9,10,11>>,
     <<5,4,7,6,1,0,3,2,13,12,15,14,9,8,11,10>>,
     <<6,7,4,5,2,3,0,1,14,15,12,13,10,11,8,9>>,
     <<7,6,5,4,3,2,1,0,15,14,13,12,11,10,9,8>>,
     <<8,9,10,11,12,13,14,15,0,1,2,3,4,5,6,7>>,
     <<9,8,11,10,13,12,15,14,1,0,3,2,5,4,7,6>>,
     <<10,11,8,9,14,15,12,13,2,3,0,1,6,7,4,5>>,
     <<11,10,9,8,15,14,13,12,3,2,1,0,7,6,5,4>>,
     <<12,13,14,15,8,9,10,11,4,5,6,7,0,1,2,3>>,
     <<13,12,15,14,9,8,11,10,5,4,7,6,1,0,3,2>>,
     <<14,15,12,13,10,11,8,9,6,7,4,5,2,3,0,1>>,
     <<15,14,13,12,11,10,9,8,7,6,5,4,3,2,1,0>> >>

\* x & y on 4-bit values, row x + 1, column y + 1
AndNibble ==
  << <<0,0,0,0,0,0,0,0,0,0,0,0,0,0,0,0>>,
     <<0,1,0,1,0,1,0,1,0,1,0,1,0,1,0,1>>,
     <<0,0,2,2,0,0,2,2,0,0,2,2,0,0,2,2>>,
     <<0,1,2,3,0,1,2,3,0,1,2,3,0,1,2,3>>,
     <<0,0,0,0,4,4,4,4,0,0,0,0,4,4,4,4>>,
     <<0,1,0,1,4,5,4,5,0,1,0,1,4,5,4,5>>,
     <<0,0,2,2,4,4,6,6,0,0,2,2,4,4,6,6>>,
     <<0,1,2,3,4,5,6,7,0,1,2,3,4,5,6,7>>,
     <<0,0,0,0,0,0,0,0,8,8,8,8,8,8,8,8>>,
     <<0,1,0,1,0,1,0,1,8,9,8,9,8,9,8,9>>,
     <<0,0,2,2,0,0,2,2,8,8,10,10,8,8,10,10>>,
     <<0,1,2,3,0,1,2,3,8,9,10,11,8,9,10,11>>,
     <<0,0,0,0,4,4,4,4,8,8,8,8,12,12,12,12>>,
     <<0,1,0,1,4,5,4,5,8,9,8,9,12,13,12,13>>,
     <<0,0,2,2,4,4,6,6,8,8,10,10,12,12,14,14>>,
     <<0,1,2,3,4,5,6,7,8,9,10,11,12,13,14,15>> >>

Xor16(x, y) ==
    XorNibble[(x \div 4096) + 1][(y \div 4096) + 1] * 4096
  + XorNibble[((x \div 256) % 16) + 1][((y \div 256) % 16) + 1] * 256
  + XorNibble[((x \div 16) % 16) + 1][((y \div 16) % 16) + 1] * 16
  + XorNibble[(x % 16) + 1][(y % 16) + 1]

And16(x, y) ==
    AndNibble[(x \div 4096) + 1][(y \div 4096) + 1] * 4096
  + AndNibble[((x \div 256) % 16) + 1][((y \div 256) % 16) + 1] * 256
  + AndNibble[((x \div 16) % 16) + 1][((y \div 16) % 16) + 1] * 16
  + AndNibble[(x % 16) + 1][(y % 16) + 1]

\* u8 ^ u8 and u8 & u8
Xor8(x, y) == Xor16(x, y)
And8(x, y) == And16(x, y)

\* u32 operators: ^  &  |  !  >>  <<  wrapping_add
XorW(x, y) == <<Xor16(x[1], y[1]), Xor16(x[2], y[2])>>
AndW(x, y) == <<And16(x[1], y[1]), And16(x[2], y[2])>>
OrW(x, y)  == <<x[1] + y[1] - And16(x[1], y[1]), x[2] + y[2] - And16(x[2], y[2])>>
NotW(x)    == <<65535 - x[1], 65535 - x[2]>>
ShrW(x, n) ==
  IF n = 0 THEN x
  ELSE IF n < 16
    THEN <<x[1] \div Pow2(n), (x[2] \div Pow2(n)) + (x[1] % Pow2(n)) * Pow2(16 - n)>>
    ELSE <<0, x[1] \div Pow2(n - 16)>>
ShlW(x, n) ==
  IF n = 0 THEN x
  ELSE IF n < 16
    THEN <<(x[1] % Pow2(16 - n)) * Pow2(n) + (x[2] \div Pow2(16 - n)),
           (x[2] % Pow2(16 - n)) * Pow2(n)>>
    ELSE <<(x[2] % Pow2(32 - n)) * Pow2(n - 16), 0>>
WrappingAdd(x, y) ==
  <<(x[1] + y[1] + ((x[2] + y[2]) \div 65536)) % 65536, (x[2] + y[2]) % 65536>>

\* u32::from_be_bytes and u32::to_be_bytes
FromBeBytes(b0, b1, b2, b3) == <<b0 * 256 + b1, b2 * 256 + b3>>
ToBeBytes(x) == <<x[1] \div 256, x[1] % 256, x[2] \div 256, x[2] % 256>>

(***************************************************************************)
(* utils.rs: operations on words                                           *)
(***************************************************************************)
rotr(x, n) == OrW(ShrW(x, n), ShlW(x, 32 - n))
shr(x, n) == ShrW(x, n)
ch(x, y, z) == XorW(AndW(x, y), AndW(NotW(x), z))
maj(x, y, z) == XorW(XorW(AndW(x, y), AndW(x, z)), AndW(y, z))
Sigma_256_0(x) == XorW(XorW(rotr(x, 2), rotr(x, 13)), rotr(x, 22))
Sigma_256_1(x) == XorW(XorW(rotr(x, 6), rotr(x, 11)), rotr(x, 25))
sigma_256_0(x) == XorW(XorW(rotr(x, 7), rotr(x, 18)), shr(x, 3))
\* variant of sigma_256_1: a rotation for the shift
sigma_256_1_rotr(x) == XorW(XorW(rotr(x, 17), rotr(x, 19)), rotr(x, 10))
sigma_256_1(x) == XorW(XorW(rotr(x, 17), rotr(x, 19)), shr(x, 10))


(***************************************************************************)
(* constants.rs (not among the sources): the tables and the block size, as *)
(* the specification describes them: the SHA-256 initial hash value, the   *)
(* 64 round constants ("prime cubes") and the 64-byte block size.          *)
(***************************************************************************)
BLOCKSIZE == 64

INITIAL_HASH ==
  <<
     <<27145, 58983>>, <<47975, 44677>>, <<15470, 62322>>, <<42319, 62778>>,
     <<20750, 21119>>, <<39685, 26764>>, <<8067, 55723>>, <<23520, 52505>> >>

PRIME_CUBES ==
  <<
     <<17034, 12184>>, <<28983, 17553>>, <<46528, 64463>>, <<59829, 56229>>,
     <<14678, 49755>>, <<23025, 4593>>, <<37439, 33444>>, <<43804, 24277>>,
     <<55303, 43672>>, <<4739, 23297>>, <<9265, 34238>>, <<21772, 32195>>,
     <<29374, 23924>>, <<32990, 45566>>, <<39900, 1703>>, <<49563, 61812>>,
     <<58523, 27073>>, <<61374, 18310>>, <<4033, 40390>>, <<9228, 41420>>,
     <<11753, 11375>>, <<19060, 33962>>, <<23728, 43484>>, <<30457, 35034>>,
     <<38974, 20818>>, <<43057, 50797>>, <<45059, 10184>>, <<48985, 32711>>,
     <<50912, 3059>>, <<54695, 37191>>, <<1738, 25425>>, <<5161, 10599>>,
     <<10167, 2693>>, <<11803, 8504>>, <<19756, 28156>>, <<21304, 3347>>,
     <<25866, 29524>>, <<30314, 2747>>, <<33218, 51502>>, <<37490, 11397>>,
     <<41663, 59553>>, <<43034, 26187>>, <<49739, 35696>>, <<51052, 20899>>,
     <<53650, 59417>>, <<54937, 1572>>, <<62478, 13701>>, <<4202, 41072>>,
     <<6564, 49430>>, <<7735, 27656>>, <<10056, 30540>>, <<13488, 48309>>,
     <<14620, 3251>>, <<20184, 43594>>, <<23452, 51791>>, <<26670, 28659>>,
     <<29839, 33518>>, <<30885, 25455>>, <<33992, 30740>>, <<36039, 520>>,
     <<37054, 65530>>, <<42064, 27883>>, <<48889, 41975>>, <<50801, 30962>> >>

(***************************************************************************)
(* Build profile and integer arithmetic of pad (utils.rs:6-12).            *)
(* 447 - num_bits as i32 is an i32 subtraction: with overflow checks (the  *)
(* dev and test profiles) an overflow panics, without them it wraps.       *)
(***************************************************************************)
VARIABLES
  overflow_checks,   \* whether the build panics on integer overflow
  frame,             \* per caller: the locals of hash / hmac / verify_hmac
  pad_in, pad_out,   \* pad applied as a function: argument and result
  data_len, lpc, zero_bits, bit_len, num_chunks
                     \* hash followed on the length of its input alone

vars == <<overflow_checks, frame, pad_in, pad_out,
          data_len, lpc, zero_bits, bit_len, num_chunks>>

\* data.len() * 8 (line 6); data.len() is <<h, l>> = h * 2^28 + l
NumBits(len) == <<len[1], len[2] * 8>>

\* num_bits as i32: the low 32 bits, two's complement
AsI32(n) == IF n[1] % 2 = 1 THEN (n[2] - 2147483647) - 1 ELSE n[2]

\* i32 x - y for x >= 0: whether it overflows, and the wrapped result
I32Sub(x, y) ==
  IF y < x - 2147483647
    THEN [overflow |-> TRUE, val |-> ((x - ((y + 2147483647) + 1)) - 2147483647) - 1]
    ELSE [overflow |-> FALSE, val |-> x - y]

\* i32 % with a positive divisor: the remainder has the sign of the dividend
I32Rem(x, m) == IF x >= 0 \/ x % m = 0 THEN x % m ELSE (x % m) - m

\* variant of ZeroBits: 448 for 447, forgetting the 1 bit
ZeroBitsFrom448(num_bits) ==
  LET d == I32Sub(448, AsI32(num_bits))
  IN IF d.overflow /\ overflow_checks
       THEN [panic |-> TRUE, val |-> 0]
       ELSE [panic |-> FALSE, val |-> I32Rem(I32Rem(d.val, 512) + 512, 512)]

\* line 9: ((447 - num_bits as i32) % 512 + 512) % 512
ZeroBits(num_bits) ==
  LET d == I32Sub(447, AsI32(num_bits))
  IN IF d.overflow /\ overflow_checks
       THEN [panic |-> TRUE, val |-> 0]
       ELSE [panic |-> FALSE, val |-> I32Rem(I32Rem(d.val, 512) + 512, 512)]

\* usize n + k for a small k >= 0
UsizeAdd(n, k) ==
  IF n[2] > 2147483647 - k
    THEN <<n[1] + 1, (n[2] - (2147483647 - k)) - 1>>
    ELSE <<n[1], n[2] + k>>

\* variant of U64ToBeBytes: to_le_bytes
U64ToLeBytes(n) ==
  LET hi32 == n[1] \div 2
  IN << n[2] % 256, (n[2] \div 256) % 256, (n[2] \div 65536) % 256,
        (n[1] % 2) * 128 + (n[2] \div 16777216),
        hi32 % 256, (hi32 \div 256) % 256, (hi32 \div 65536) % 256, hi32 \div 16777216 >>

\* (num_bits as u64).to_be_bytes() (line 35)
U64ToBeBytes(n) ==
  LET hi32 == n[1] \div 2
  IN << hi32 \div 16777216, (hi32 \div 65536) % 256, (hi32 \div 256) % 256, hi32 % 256,
        (n[1] % 2) * 128 + (n[2] \div 16777216), (n[2] \div 65536) % 256,
        (n[2] \div 256) % 256, n[2] % 256 >>

(***************************************************************************)
(* utils.rs: pad and parse                                                 *)
(***************************************************************************)
\* byte & (1 << (7 - i)) != 0 (lines 21, 38)
BitOf(byte, i) == And8(byte, Pow2(7 - i)) # 0

\* lines 54-67: the byte built from the c-th chunk of 8 bits
PackByte(bit_vec, c) ==
  LET bit(i) == IF bit_vec[8 * (c - 1) + i + 1] THEN Pow2(7 - i) ELSE 0
  IN bit(0) + bit(1) + bit(2) + bit(3) + bit(4) + bit(5) + bit(6) + bit(7)

\* pad(data): Some(padded_message), None, or a panic of the i32 subtraction
pad(data) ==
  LET num_bits == NumBits(<<0, Len(data)>>)
      zb == ZeroBits(num_bits)
  IN IF zb.panic THEN [kind |-> "Panic", bytes |-> << >>]
     ELSE
       LET nb == num_bits[2]
           length_bits == U64ToBeBytes(num_bits)
           total == nb + 1 + zb.val + 64
           bit_vec == [j \in 1..total |->
                         IF j <= nb THEN BitOf(data[((j - 1) \div 8) + 1], (j - 1) % 8)
                         ELSE IF j = nb + 1 THEN TRUE
                         ELSE IF j <= nb + 1 + zb.val THEN FALSE
                         ELSE BitOf(length_bits[((j - nb - zb.val - 2) \div 8) + 1],
                                    (j - nb - zb.val - 2) % 8)]
       IN IF total % 512 # 0 THEN [kind |-> "None", bytes |-> << >>]
          ELSE [kind |-> "Some",
                bytes |-> [c \in 1..(total \div 8) |-> PackByte(bit_vec, c)]]

\* data.chunks(n): the number of chunks
NumChunks(len, n) == (len + n - 1) \div n

\* parse(data): the blocks, or a panic when an inner chunk is shorter than 4
parse(data) ==
  [panic |-> Len(data) % 4 # 0,
   blocks |-> [b \in 1..NumChunks(Len(data), 64) |->
                 [w \in 1..16 |->
                    LET o == 64 * (b - 1) + 4 * (w - 1)
                    IN IF o + 4 <= Len(data)
                         THEN FromBeBytes(data[o + 1], data[o + 2], data[o + 3], data[o + 4])
                         ELSE <<0, 0>>]]]

(***************************************************************************)
(* lib.rs: hash, normalize, hmac and verify_hmac, one step per statement   *)
(* or loop iteration.  frame[p] holds the locals of caller p's call.       *)
(***************************************************************************)
Callers == {1, 2}

\* what a step of a call leaves alone
Others == UNCHANGED <<overflow_checks, pad_in, pad_out,
                      data_len, lpc, zero_bits, bit_len, num_chunks>>

Zeros(n) == [j \in 1..n |-> 0]
ZeroWords(n) == [j \in 1..n |-> <<0, 0>>]

IdleFrame ==
  [pc |-> "idle", op |-> "none", stage |-> "none",
   data |-> << >>, key |-> << >>, hmac_value |-> << >>,
   normalized_key |-> << >>, inner_key |-> << >>, outer_key |-> << >>,
   inner_hash |-> << >>, hin |-> << >>,
   padded_message |-> << >>, message_blocks |-> << >>,
   hash_value |-> << >>, i |-> 0, message_schedule |-> << >>, t |-> 0,
   a |-> <<0, 0>>, b |-> <<0, 0>>, c |-> <<0, 0>>, d |-> <<0, 0>>,
   e |-> <<0, 0>>, f |-> <<0, 0>>, g |-> <<0, 0>>, h |-> <<0, 0>>,
   final_hash |-> << >>, computed_mac_tag |-> << >>, received_mac_tag |-> << >>,
   ret |-> << >>, verified |-> FALSE,
   calls |-> << >>]   \* history: <<input, output>> of each hash call returned so far

\* a call of hash(data) made at stage st of the caller (lib.rs:26)
EnterHash(fr, st, data) == [fr EXCEPT !.stage = st, !.hin = data, !.pc = "pad"]

\* hash(&message_bytes)
CallHash(p, m) ==
  /\ frame[p].pc = "idle"
  /\ Others
  /\ frame' = [frame EXCEPT ![p] = EnterHash([IdleFrame EXCEPT !.op = "hash", !.data = m],
                                              "hash", m)]

\* hmac(&message_bytes, &key)
CallHmac(p, m, k) ==
  /\ frame[p].pc = "idle"
  /\ Others
  /\ frame' = [frame EXCEPT ![p] =
                 [IdleFrame EXCEPT !.op = "hmac", !.data = m, !.key = k, !.pc = "normalize"]]

\* verify_hmac(&message_bytes, tag, &key) by the caller that holds hmac's result
CallVerifyHmac(p) ==
  /\ frame[p].pc = "done" /\ frame[p].op = "hmac"
  /\ Others
  /\ frame' = [frame EXCEPT ![p] =
                 [IdleFrame EXCEPT !.op = "verify", !.data = frame[p].data,
                                   !.key = frame[p].key, !.hmac_value = frame[p].ret,
                                   !.pc = "normalize"]]

\* variant of NormalizeKey: >= for >
NormalizeKeyGe(p) ==
  /\ frame[p].pc = "normalize"
  /\ Others
  /\ frame' = [frame EXCEPT ![p] =
                 IF Len(frame[p].key) >= BLOCKSIZE
                   THEN EnterHash(frame[p], "normalize", frame[p].key)
                   ELSE [frame[p] EXCEPT !.normalized_key = frame[p].key,
                                         !.pc = "normalize_pad"]]

\* lib.rs:12-18
NormalizeKey(p) ==
  /\ frame[p].pc = "normalize"
  /\ Others
  /\ frame' = [frame EXCEPT ![p] =
                 IF Len(frame[p].key) > BLOCKSIZE
                   THEN EnterHash(frame[p], "normalize", frame[p].key)
                   ELSE [frame[p] EXCEPT !.normalized_key = frame[p].key,
                                         !.pc = "normalize_pad"]]

\* lib.rs:21-23: BLOCKSIZE - normalized_key.len() is a usize subtraction
NormalizePad(p) ==
  /\ frame[p].pc = "normalize_pad"
  /\ Others
  /\ frame' = [frame EXCEPT ![p] =
                 IF BLOCKSIZE - Len(frame[p].normalized_key) < 0
                   THEN [frame[p] EXCEPT !.pc = "panic"]
                   ELSE [frame[p] EXCEPT
                           !.normalized_key =
                              @ \o Zeros(BLOCKSIZE - Len(frame[p].normalized_key)),
                           !.pc = "keys"]]

\* normalized_key.iter().zip(pad.iter()).map(|(&k, &i)| k ^ i) (lib.rs:104-105)
XorPad(normalized_key, byte) ==
  [j \in 1..(IF Len(normalized_key) < BLOCKSIZE THEN Len(normalized_key) ELSE BLOCKSIZE)
     |-> Xor8(normalized_key[j], byte)]

\* lib.rs:100-111: the keys, then hash(&inner)
HmacKeys(p) ==
  /\ frame[p].pc = "keys"
  /\ Others
  /\ frame' = [frame EXCEPT ![p] =
                 LET inner_key == XorPad(frame[p].normalized_key, 54)
                     outer_key == XorPad(frame[p].normalized_key, 92)
                 IN EnterHash([frame[p] EXCEPT !.inner_key = inner_key,
                                               !.outer_key = outer_key],
                              "inner", inner_key \o frame[p].data)]

\* lib.rs:28: pad(data).unwrap()
HashPad(p) ==
  /\ frame[p].pc = "pad"
  /\ Others
  /\ frame' = [frame EXCEPT ![p] =
                 LET r == pad(frame[p].hin)
                 IN IF r.kind = "Some"
                      THEN [frame[p] EXCEPT !.padded_message = r.bytes, !.pc = "parse"]
                      ELSE [frame[p] EXCEPT !.pc = "panic"]]

\* lib.rs:29-34
HashParse(p) ==
  /\ frame[p].pc = "parse"
  /\ Others
  /\ frame' = [frame EXCEPT ![p] =
                 LET r == parse(frame[p].padded_message)
                 IN IF r.panic THEN [frame[p] EXCEPT !.pc = "panic"]
                    ELSE [frame[p] EXCEPT
                            !.message_blocks = r.blocks,
                            !.hash_value = INITIAL_HASH,
                            !.i = 0, !.t = 0,
                            !.message_schedule = ZeroWords(64),
                            !.pc = IF Len(r.blocks) > 0 THEN "schedule" ELSE "final"]]

\* lib.rs:37-46: one iteration of the message schedule loop
ScheduleWord(fr) ==
  IF fr.t < 16
    THEN fr.message_blocks[fr.i + 1][fr.t + 1]
    ELSE WrappingAdd(
           WrappingAdd(
             WrappingAdd(sigma_256_1(fr.message_schedule[fr.t - 2 + 1]),
                         fr.message_schedule[fr.t - 7 + 1]),
             sigma_256_0(fr.message_schedule[fr.t - 15 + 1])),
           fr.message_schedule[fr.t - 16 + 1])

ScheduleStep(p) ==
  /\ frame[p].pc = "schedule" /\ frame[p].t < 64
  /\ Others
  /\ frame' = [frame EXCEPT ![p] =
                 [frame[p] EXCEPT
                    !.message_schedule = [@ EXCEPT ![frame[p].t + 1] = ScheduleWord(frame[p])],
                    !.t = @ + 1,
                    !.pc = IF frame[p].t + 1 < 64 THEN "schedule" ELSE "working"]]

\* lib.rs:49-56
InitWorking(p) ==
  /\ frame[p].pc = "working"
  /\ Others
  /\ frame' = [frame EXCEPT ![p] =
                 [frame[p] EXCEPT
                    !.a = frame[p].hash_value[1], !.b = frame[p].hash_value[2],
                    !.c = frame[p].hash_value[3], !.d = frame[p].hash_value[4],
                    !.e = frame[p].hash_value[5], !.f = frame[p].hash_value[6],
                    !.g = frame[p].hash_value[7], !.h = frame[p].hash_value[8],
                    !.t = 0, !.pc = "rounds"]]

\* lib.rs:62-76: one iteration of the compression loop
Round(fr) ==
  LET t1 == WrappingAdd(
              WrappingAdd(
                WrappingAdd(WrappingAdd(fr.h, Sigma_256_1(fr.e)), ch(fr.e, fr.f, fr.g)),
                PRIME_CUBES[fr.t + 1]),
              fr.message_schedule[fr.t + 1])
      t2 == WrappingAdd(Sigma_256_0(fr.a), maj(fr.a, fr.b, fr.c))
  IN [fr EXCEPT !.h = fr.g, !.g = fr.f, !.f = fr.e, !.e = WrappingAdd(fr.d, t1),
                !.d = fr.c, !.c = fr.b, !.b = fr.a, !.a = WrappingAdd(t1, t2)]

RoundStep(p) ==
  /\ frame[p].pc = "rounds" /\ frame[p].t < 64
  /\ Others
  /\ frame' = [frame EXCEPT ![p] =
                 [Round(frame[p]) EXCEPT
                    !.t = @ + 1,
                    !.pc = IF frame[p].t + 1 < 64 THEN "rounds" ELSE "update"]]

\* variant of UpdateHash: hash_value a static shared by all callers
UpdateHashShared(p) ==
  /\ frame[p].pc = "update"
  /\ Others
  /\ frame' =
       LET fr == frame[p]
           temp_values == <<fr.a, fr.b, fr.c, fr.d, fr.e, fr.f, fr.g, fr.h>>
           hv == [j \in 1..8 |-> WrappingAdd(temp_values[j], fr.hash_value[j])]
       IN [q \in Callers |->
             IF q = p
               THEN [fr EXCEPT
                       !.hash_value = hv, !.i = @ + 1, !.t = 0,
                       !.message_schedule = ZeroWords(64),
                       !.pc = IF fr.i + 1 < Len(fr.message_blocks) THEN "schedule" ELSE "final"]
               ELSE IF frame[q].pc \in {"schedule", "working", "rounds", "update", "final"}
                 THEN [frame[q] EXCEPT !.hash_value = hv]
                 ELSE frame[q]]

\* lib.rs:80-83, then the next iteration of the block loop (line 34)
UpdateHash(p) ==
  /\ frame[p].pc = "update"
  /\ Others
  /\ frame' = [frame EXCEPT ![p] =
                 LET fr == frame[p]
                     temp_values == <<fr.a, fr.b, fr.c, fr.d, fr.e, fr.f, fr.g, fr.h>>
                 IN [fr EXCEPT
                       !.hash_value = [j \in 1..8 |-> WrappingAdd(temp_values[j], fr.hash_value[j])],
                       !.i = @ + 1, !.t = 0,
                       !.message_schedule = ZeroWords(64),
                       !.pc = IF fr.i + 1 < Len(fr.message_blocks) THEN "schedule" ELSE "final"]]

\* lib.rs:87-90: final_hash.extend(word.to_be_bytes()) for each word
Serialize(hash_value) ==
  [j \in 1..(4 * Len(hash_value)) |-> ToBeBytes(hash_value[((j - 1) \div 4) + 1])[((j - 1) % 4) + 1]]

HashFinal(p) ==
  /\ frame[p].pc = "final"
  /\ Others
  /\ frame' = [frame EXCEPT ![p] =
                 [frame[p] EXCEPT !.final_hash = Serialize(frame[p].hash_value),
                                  !.calls = Append(@, <<frame[p].hin,
                                                        Serialize(frame[p].hash_value)>>),
                                  !.pc = "return"]]

\* lib.rs:92 returning to the caller of hash
HashReturn(p) ==
  /\ frame[p].pc = "return" /\ frame[p].stage = "hash"
  /\ Others
  /\ frame' = [frame EXCEPT ![p] = [frame[p] EXCEPT !.ret = frame[p].final_hash, !.pc = "done"]]

\* lib.rs:14-15
NormalizeHashed(p) ==
  /\ frame[p].pc = "return" /\ frame[p].stage = "normalize"
  /\ Others
  /\ frame' = [frame EXCEPT ![p] =
                 [frame[p] EXCEPT !.normalized_key = frame[p].final_hash,
                                  !.pc = "normalize_pad"]]

\* variant of HmacInner: the inner key in the outer hash
HmacInnerKeyTwice(p) ==
  /\ frame[p].pc = "return" /\ frame[p].stage = "inner"
  /\ Others
  /\ frame' = [frame EXCEPT ![p] =
                 EnterHash([frame[p] EXCEPT !.inner_hash = frame[p].final_hash],
                           "outer", frame[p].inner_key \o frame[p].final_hash)]

\* lib.rs:111-118
HmacInner(p) ==
  /\ frame[p].pc = "return" /\ frame[p].stage = "inner"
  /\ Others
  /\ frame' = [frame EXCEPT ![p] =
                 EnterHash([frame[p] EXCEPT !.inner_hash = frame[p].final_hash],
                           "outer", frame[p].outer_key \o frame[p].final_hash)]

\* lib.rs:118-121 returning to the caller of hmac
HmacOuter(p) ==
  /\ frame[p].pc = "return" /\ frame[p].stage = "outer"
  /\ Others
  /\ frame' = [frame EXCEPT ![p] =
                 IF frame[p].op = "hmac"
                   THEN [frame[p] EXCEPT !.ret = frame[p].final_hash, !.pc = "done"]
                   ELSE [frame[p] EXCEPT !.computed_mac_tag = frame[p].final_hash,
                                         !.pc = "compare"]]

(***************************************************************************)
(* Inputs                                                                  *)
(***************************************************************************)
MaxExtra == 2       \* bytes appended to a tag
KeyOver == 1        \* keys up to BLOCKSIZE + KeyOver bytes

Rep(byte, n) == [j \in 1..n |-> byte]

MsgTest ==
  <<
     84, 104, 105, 115, 32, 105, 115, 32, 97, 32, 116, 101, 115, 116, 32, 109,
     101, 115, 115, 97, 103, 101, 46 >>
\* sha256: 0668b515bfc41b90b6a90a6ae8600256e1c76a67d17c78a26127ddeb9b324435
DigestTest ==
  <<
     6, 104, 181, 21, 191, 196, 27, 144, 182, 169, 10, 106, 232, 96, 2, 86,
     225, 199, 106, 103, 209, 124, 120, 162, 97, 39, 221, 235, 155, 50, 68, 53 >>
MsgAbc ==
  <<
     97, 98, 99 >>
\* sha256: ba7816bf8f01cfea414140de5dae2223b00361a396177a9cb410ff61f20015ad
DigestAbc ==
  <<
     186, 120, 22, 191, 143, 1, 207, 234, 65, 65, 64, 222, 93, 174, 34, 35,
     176, 3, 97, 163, 150, 23, 122, 156, 180, 16, 255, 97, 242, 0, 21, 173 >>
MsgTwoBlock ==
  <<
     97, 98, 99, 100, 98, 99, 100, 101, 99, 100, 101, 102, 100, 101, 102, 103,
     101, 102, 103, 104, 102, 103, 104, 105, 103, 104, 105, 106, 104, 105, 106, 107,
     105, 106, 107, 108, 106, 107, 108, 109, 107, 108, 109, 110, 108, 109, 110, 111,
     109, 110, 111, 112, 110, 111, 112, 113 >>
\* sha256: 248d6a61d20638b8e5c026930c3e6039a33ce45964ff2167f6ecedd419db06c1
DigestTwoBlock ==
  <<
     36, 141, 106, 97, 210, 6, 56, 184, 229, 192, 38, 147, 12, 62, 96, 57,
     163, 60, 228, 89, 100, 255, 33, 103, 246, 236, 237, 212, 25, 219, 6, 193 >>
MsgHiThere ==
  <<
     72, 105, 32, 84, 104, 101, 114, 101 >>
DigestEmpty ==
  <<
     227, 176, 196, 66, 152, 252, 28, 20, 154, 251, 244, 200, 153, 111, 185, 36,
     39, 174, 65, 228, 100, 155, 147, 76, 164, 149, 153, 27, 120, 82, 184, 85 >>
TagHiThere ==
  <<
     25, 138, 96, 126, 180, 75, 251, 198, 153, 3, 160, 241, 207, 43, 189, 197,
     186, 10, 163, 243, 217, 174, 60, 28, 122, 59, 22, 150, 160, 182, 140, 247 >>

\* sha256 of the byte 170 repeated 65 times
DigestKey65 ==
  <<
     220, 204, 43, 171, 58, 120, 166, 39, 34, 112, 17, 36, 75, 246, 246, 101,
     13, 138, 181, 163, 242, 134, 136, 58, 192, 155, 158, 11, 160, 16, 162, 163 >>

HashInputs == { << >>, MsgAbc, MsgTest, MsgTwoBlock }

HmacInputs ==
  { <<MsgHiThere, Rep(11, 32)>>, <<Rep(100, 50), Rep(10, 32)>>, << << >>, << >> >>,
    <<MsgAbc, Rep(170, BLOCKSIZE)>> }
  \cup { <<MsgAbc, Rep(170, BLOCKSIZE + n)>> : n \in 1..KeyOver }

TagDeltas == {1, 128, 255}

\* the tag hmac returned, that tag with one byte replaced, and tags of
\* another length
TagInputs(tag) ==
  {tag}
  \cup { [tag EXCEPT ![j] = (tag[j] + dl) % 256] : j \in 1..Len(tag), dl \in TagDeltas }
  \cup { [tag EXCEPT ![1] = 255] }
  \cup { SubSeq(tag, 1, n) : n \in 0..(Len(tag) - 1) }
  \cup { tag \o Zeros(n) : n \in 1..MaxExtra }

\* subtle's ct_eq on byte slices (an external crate): 0 when the lengths
\* differ, else 1 iff all bytes agree
ct_eq(x, y) ==
  IF Len(x) # Len(y) THEN 0
  ELSE IF \A j \in 1..Len(x) : x[j] = y[j] THEN 1 ELSE 0

\* variant of TagsEqual: the last byte is not compared
TagsEqualButLast(computed_mac_tag, received_mac_tag) ==
  /\ Len(computed_mac_tag) = Len(received_mac_tag)
  /\ \A j \in 1..(Len(computed_mac_tag) - 1) : computed_mac_tag[j] = received_mac_tag[j]

\* variant of TagsEqual: the bytes both have are compared, the lengths are not
TagsEqualZip(computed_mac_tag, received_mac_tag) ==
  \A j \in 1..Len(computed_mac_tag) :
    j <= Len(received_mac_tag) => computed_mac_tag[j] = received_mac_tag[j]

\* lib.rs:129
TagsEqual(computed_mac_tag, received_mac_tag) ==
  ct_eq(computed_mac_tag, received_mac_tag) = 1

\* lib.rs:129; received_mac_tag is read here and nowhere before
VerifyCompare(p) ==
  /\ frame[p].pc = "compare"
  /\ Others
  /\ \E tag \in TagInputs(frame[p].hmac_value) :
       frame' = [frame EXCEPT ![p] =
                   [frame[p] EXCEPT !.received_mac_tag = tag,
                                    !.verified = TagsEqual(frame[p].computed_mac_tag, tag),
                                    !.pc = "done"]]

\* the steps of hash
HashSteps(p) ==
  \/ HashPad(p) \/ HashParse(p) \/ ScheduleStep(p) \/ InitWorking(p)
  \/ RoundStep(p) \/ UpdateHash(p) \/ HashFinal(p) \/ HashReturn(p)

\* the steps of hmac and verify_hmac outside their calls of hash
HmacSteps(p) ==
  \/ NormalizeKey(p) \/ NormalizePad(p) \/ NormalizeHashed(p)
  \/ HmacKeys(p) \/ HmacInner(p) \/ HmacOuter(p) \/ VerifyCompare(p)

Init ==
  /\ overflow_checks \in BOOLEAN
  /\ frame = [p \in Callers |-> IdleFrame]
  /\ pad_in = << >> /\ pad_out = [kind |-> "none", bytes |-> << >>]
  /\ data_len = <<0, 0>> /\ lpc = "none" /\ zero_bits = 0
  /\ bit_len = <<0, 0>> /\ num_chunks = 0

\* one caller making its calls one after the other
Next ==
  \/ \E m \in HashInputs : CallHash(1, m)
  \/ \E mk \in HmacInputs : CallHmac(1, mk[1], mk[2])
  \/ CallVerifyHmac(1)
  \/ HashSteps(1)
  \/ HmacSteps(1)

Spec == Init /\ [][Next]_vars

(***************************************************************************)
(* Two callers in parallel threads, their steps interleaved.               *)
(***************************************************************************)
ConcInputs(p) == IF p = 1 THEN { << >>, MsgAbc } ELSE { MsgAbc }

NextConc ==
  \E p \in Callers :
    \/ \E m \in ConcInputs(p) : CallHash(p, m)
    \/ HashSteps(p)

SpecConc == Init /\ [][NextConc]_vars

(***************************************************************************)
(* pad applied as a function to byte sequences of every length up to       *)
(* MaxPadLen.                                                              *)
(***************************************************************************)
MaxPadLen == 121

PadInputs ==
  { Rep(255, n) : n \in 0..MaxPadLen }
  \cup { [j \in 1..n |-> (37 * j + n) % 256] : n \in 0..MaxPadLen }

InitPad ==
  /\ overflow_checks \in BOOLEAN
  /\ frame = [p \in Callers |-> IdleFrame]
  /\ pad_in \in PadInputs /\ pad_out = [kind |-> "none", bytes |-> << >>]
  /\ data_len = <<0, 0>> /\ lpc = "none" /\ zero_bits = 0
  /\ bit_len = <<0, 0>> /\ num_chunks = 0

ApplyPad ==
  /\ pad_out.kind = "none"
  /\ pad_out' = pad(pad_in)
  /\ UNCHANGED <<overflow_checks, frame, pad_in, data_len, lpc, zero_bits, bit_len,
                 num_chunks>>

NextPad == ApplyPad

SpecPad == InitPad /\ [][NextPad]_vars

(***************************************************************************)
(* hash followed on the length of its input alone: the arithmetic and the  *)
(* branches of pad, unwrap and parse for inputs of data_len = <<h, l>>,    *)
(* that is h * 2^28 + l bytes.                                             *)
(***************************************************************************)
MaxHigh == 3
MaxLow == 70

LenInputs == { <<hh, ll>> : hh \in 0..MaxHigh, ll \in 0..MaxLow }

InitLen ==
  /\ overflow_checks \in BOOLEAN
  /\ frame = [p \in Callers |-> IdleFrame]
  /\ pad_in = << >> /\ pad_out = [kind |-> "none", bytes |-> << >>]
  /\ data_len \in LenInputs /\ lpc = "pad" /\ zero_bits = 0
  /\ bit_len = <<0, 0>> /\ num_chunks = 0

OthersLen == UNCHANGED <<overflow_checks, frame, pad_in, pad_out, data_len>>

\* utils.rs:6-41: the bit count, zero_bits and the length of bit_vec
PadArith ==
  /\ lpc = "pad"
  /\ OthersLen
  /\ LET num_bits == NumBits(data_len)
         zb == ZeroBits(num_bits)
     IN IF zb.panic
          THEN lpc' = "panic" /\ UNCHANGED <<zero_bits, bit_len, num_chunks>>
          ELSE /\ zero_bits' = zb.val
               /\ bit_len' = UsizeAdd(num_bits, 1 + zb.val + 64)
               /\ lpc' = "check"
               /\ UNCHANGED num_chunks

\* utils.rs:44-47 and lib.rs:28: None makes unwrap panic
PadCheck ==
  /\ lpc = "check"
  /\ OthersLen
  /\ lpc' = IF bit_len[2] % 512 # 0 THEN "panic" ELSE "parse"
  /\ UNCHANGED <<zero_bits, bit_len, num_chunks>>

\* utils.rs:75-88: the padded message has bit_len / 8 bytes; inner_chunk[3]
\* is out of bounds unless that is a multiple of 4
ParseLen ==
  /\ lpc = "parse"
  /\ OthersLen
  /\ num_chunks' = bit_len[1] * 4194304 + NumChunks(bit_len[2] \div 8, 64)
  /\ lpc' = IF (bit_len[2] \div 8) % 4 # 0 THEN "panic" ELSE "blocks"
  /\ UNCHANGED <<zero_bits, bit_len>>

\* lib.rs:34-92: the block loop and the serialization do not fail
BlocksDone ==
  /\ lpc = "blocks"
  /\ OthersLen
  /\ lpc' = "done"
  /\ UNCHANGED <<zero_bits, bit_len, num_chunks>>

NextLen == PadArith \/ PadCheck \/ ParseLen \/ BlocksDone

SpecLen == InitLen /\ [][NextLen]_vars

(***************************************************************************)
(* Properties                                                              *)
(***************************************************************************)
PadApplied == pad_out.kind # "none"

\* the zero bits between the 1 bit and the 64-bit length field of pad's result
ZeroPadBits == 8 * Len(pad_out.bytes) - 8 * Len(pad_in) - 1 - 64

\* C1: pad(m) is m, then the byte 0x80 (a 1 bit and seven 0 bits), then 0
\* bytes, then 8 * len(m) in 64 bits big-endian, and its bit length is a
\* multiple of 512
C1_PadLayout ==
  PadApplied =>
    /\ pad_out.kind = "Some"
    /\ LET n == Len(pad_in)
           out == pad_out.bytes
           L == Len(pad_out.bytes)
       IN /\ (8 * L) % 512 = 0
          /\ L >= n + 9
          /\ \A j \in 1..n : out[j] = pad_in[j]
          /\ out[n + 1] = 128
          /\ \A j \in (n + 2)..(L - 4) : out[j] = 0
          /\ out[L - 3] * 16777216 + out[L - 2] * 65536 + out[L - 1] * 256 + out[L] = 8 * n

C1_Witness ==
  /\ pad_out.kind = "Some" /\ Len(pad_in) = 64 /\ pad_in[1] = 255
  /\ Len(pad_out.bytes) = 128

\* C9 as stated: at num_bits mod 512 = 448 no zero bit is inserted
C9_NoZeroBitsAt448 ==
  (pad_out.kind = "Some" /\ (8 * Len(pad_in)) % 512 = 448) => ZeroPadBits = 0

\* C9 amended: at num_bits mod 512 = 448 (a 56-byte message) pad inserts 511
\* zero bits, so the padded message takes one more block
C9_ZeroBits511At448 ==
  (PadApplied /\ (8 * Len(pad_in)) % 512 = 448) =>
    /\ pad_out.kind = "Some"
    /\ ZeroPadBits = 511
    /\ ZeroBits(NumBits(<<0, Len(pad_in)>>)).val = 511
    /\ Len(pad_out.bytes) = Len(pad_in) + 72

C9_Witness ==
  /\ PadApplied /\ Len(pad_in) = 56
  /\ 8 * Len(pad_out.bytes) = 1024

\* the smallest k >= 0 with (num_bits + 1 + k) mod 512 = 448; 2^31 is a
\* multiple of 512, so num_bits mod 512 is (8 * l) mod 512
UnsignedZeroBits(len) ==
  CHOOSE k \in 0..511 : (((8 * len[2]) % 512) + 1 + k) % 512 = 448

\* C8: for every length the signed computation of zero_bits yields the value
\* of the unsigned formulation
C8_SignedAgreesWithUnsigned ==
  lpc # "pad" => (lpc # "panic" /\ zero_bits = UnsignedZeroBits(data_len))

\* C10: hash completes for every input: no panic in pad, unwrap or parse, and
\* the padded length is a multiple of 64 bytes
C10_HashCompletes ==
  /\ lpc # "panic"
  /\ lpc \in {"parse", "blocks", "done"} => (bit_len[2] \div 8) % 64 = 0

\* reference digests (FIPS 180-4 test vectors and the repository's test)
Sha256Ref(m) ==
  CASE m = << >> -> DigestEmpty
    [] m = MsgAbc -> DigestAbc
    [] m = MsgTest -> DigestTest
    [] m = MsgTwoBlock -> DigestTwoBlock
    [] OTHER -> << >>

\* C2: hash(m) is the SHA-256 digest of m: the chain starts from INITIAL_HASH,
\* takes the blocks of parse(pad(m)) in order, each from the state the one
\* before left, and the result is the 8 words in 32 bytes, big-endian
C2_HashIsSha256 ==
  LET fr == frame[1]
  IN /\ (fr.pc = "done" /\ fr.op = "hash") =>
          /\ fr.ret = Sha256Ref(fr.data)
          /\ Len(fr.ret) = 32
          /\ fr.i = Len(fr.message_blocks)
          /\ \A j \in 1..8 :
               /\ fr.ret[4 * j - 3] * 256 + fr.ret[4 * j - 2] = fr.hash_value[j][1]
               /\ fr.ret[4 * j - 1] * 256 + fr.ret[4 * j] = fr.hash_value[j][2]
     /\ (fr.op = "hash" /\ fr.pc \in {"schedule", "working", "rounds", "update"}) =>
          /\ fr.i < Len(fr.message_blocks)
          /\ fr.i = 0 => fr.hash_value = INITIAL_HASH
          /\ (fr.pc = "rounds" /\ fr.t = 0) =>
               <<fr.a, fr.b, fr.c, fr.d, fr.e, fr.f, fr.g, fr.h>> = fr.hash_value
          /\ fr.pc = "working" =>
               /\ fr.message_blocks = parse(pad(fr.data).bytes).blocks
               /\ \A w \in 1..16 : fr.message_schedule[w] = fr.message_blocks[fr.i + 1][w]

C2_Witness ==
  /\ frame[1].pc = "done" /\ frame[1].op = "hash"
  /\ frame[1].data = MsgTwoBlock /\ frame[1].ret = DigestTwoBlock

\* x ^ y on bytes, bit by bit
BitXor8(x, y) ==
  LET bit(i) == (((x \div Pow2(i)) + (y \div Pow2(i))) % 2) * Pow2(i)
  IN bit(0) + bit(1) + bit(2) + bit(3) + bit(4) + bit(5) + bit(6) + bit(7)

\* C3: hmac(m, k) is the result of hash on outer_key ++ h, h the result of
\* hash on inner_key ++ m, the keys being the normalized key xor 0x36 and
\* 0x5c; it has 32 bytes and matches the test's reference tag
C3_HmacNested ==
  LET fr == frame[1]
      n == Len(frame[1].calls)
  IN (fr.pc = "done" /\ fr.op = "hmac") =>
       /\ Len(fr.ret) = 32
       /\ n >= 2
       /\ fr.ret = fr.calls[n][2]
       /\ fr.calls[n][1] = fr.outer_key \o fr.calls[n - 1][2]
       /\ fr.calls[n - 1][1] = fr.inner_key \o fr.data
       /\ Len(fr.normalized_key) = 64 /\ Len(fr.inner_key) = 64 /\ Len(fr.outer_key) = 64
       /\ \A j \in 1..64 :
            /\ fr.inner_key[j] = BitXor8(fr.normalized_key[j], 54)
            /\ fr.outer_key[j] = BitXor8(fr.normalized_key[j], 92)
       /\ (fr.data = MsgHiThere /\ fr.key = Rep(11, 32)) => fr.ret = TagHiThere

C3_Witness ==
  /\ frame[1].pc = "done" /\ frame[1].op = "hmac"
  /\ frame[1].data = MsgHiThere /\ frame[1].ret = TagHiThere

\* C4: normalize(k) has 64 bytes: k and zeros without hashing when
\* len(k) <= 64, else hash(k) and 32 zeros; BLOCKSIZE - len is never negative
C4_NormalizedKey ==
  LET fr == frame[1]
  IN /\ fr.pc # "panic"
     /\ fr.pc = "normalize_pad" => 64 - Len(fr.normalized_key) >= 0
     /\ fr.pc = "keys" =>
          /\ Len(fr.normalized_key) = 64
          /\ IF Len(fr.key) <= 64
               THEN /\ fr.calls = << >>
                    /\ \A j \in 1..64 :
                         fr.normalized_key[j] = IF j <= Len(fr.key) THEN fr.key[j] ELSE 0
               ELSE /\ Len(fr.calls) = 1
                    /\ fr.calls[1][1] = fr.key
                    /\ Len(fr.calls[1][2]) = 32
                    /\ fr.key = Rep(170, 65) => fr.calls[1][2] = DigestKey65
                    /\ \A j \in 1..64 :
                         fr.normalized_key[j] = IF j <= 32 THEN fr.calls[1][2][j] ELSE 0

C4_Witness ==
  /\ frame[1].pc = "keys" /\ Len(frame[1].key) = 65
  /\ SubSeq(frame[1].normalized_key, 1, 32) = DigestKey65

DiffersInOneByte(x, y) ==
  /\ Len(x) = Len(y)
  /\ Cardinality({j \in 1..Len(x) : x[j] # y[j]}) = 1

\* C5: verify_hmac(m, hmac(m, k), k) is true, and false for that tag with any
\* one byte replaced by another value
C5_VerifyAcceptsOnlyTheTag ==
  LET fr == frame[1]
  IN (fr.pc = "done" /\ fr.op = "verify") =>
       /\ Len(fr.hmac_value) = 32
       /\ fr.received_mac_tag = fr.hmac_value => fr.verified
       /\ DiffersInOneByte(fr.received_mac_tag, fr.hmac_value) => ~fr.verified

C5_Witness ==
  /\ frame[1].pc = "done" /\ frame[1].op = "verify"
  /\ DiffersInOneByte(frame[1].received_mac_tag, frame[1].hmac_value)
  /\ frame[1].received_mac_tag[32] # frame[1].hmac_value[32]
  /\ ~frame[1].verified

\* C6: a received tag that is not 32 bytes long makes verify_hmac return
\* false, and verify_hmac does not panic
C6_WrongLengthIsFalse ==
  LET fr == frame[1]
  IN /\ fr.op = "verify" => fr.pc # "panic"
     /\ (fr.pc = "done" /\ fr.op = "verify" /\ Len(fr.received_mac_tag) # 32) =>
          ~fr.verified

C6_Witness ==
  /\ frame[1].pc = "done" /\ frame[1].op = "verify"
  /\ frame[1].received_mac_tag = SubSeq(frame[1].hmac_value, 1, 31)
  /\ ~frame[1].verified

\* C7: with the steps of two callers interleaved, each call returns what it
\* returns alone: the digest of its own argument; two calls on the same
\* argument return the same bytes
C7_CallsIndependent ==
  /\ \A p \in Callers :
       frame[p].pc = "done" => frame[p].ret = Sha256Ref(frame[p].data)
  /\ \A p, q \in Callers :
       (frame[p].pc = "done" /\ frame[q].pc = "done" /\ frame[p].data = frame[q].data)
         => frame[p].ret = frame[q].ret

C7_Witness ==
  /\ frame[1].pc = "done" /\ frame[2].pc = "done"
  /\ frame[1].data = << >> /\ frame[2].data = MsgAbc
  /\ frame[1].ret = DigestEmpty /\ frame[2].ret = DigestAbc
=============================================================================
